---- MODULE Spec2Model ----
(***************************************************************************)
(* Block and BlockHeader of ethereumjs-block: header validation against a  *)
(* parent, uncle validation, the orchestration of Block.validate over the  *)
(* async library, and the (de)serialisation of a block.                    *)
(*                                                                         *)
(* Strings are modelled as sequences of chunks (a chunk is an atomic piece *)
(* of text), so that '' is <<>>, concatenation is \o and "the message      *)
(* contains the reason" is membership of the reason's chunk.               *)
(* Digests (sha3, a trie root) are modelled as injective functions of the  *)
(* digested content.                                                       *)
(***************************************************************************)
EXTENDS Integers, Sequences, FiniteSets, TLC

VARIABLES
  block,   \* the Block validate is called on: header, transactions, uncleHeaders
  called,  \* Block.validate(blockChain, cb) has been called
  st,      \* the state of the call: collaborator calls in flight, the async
           \* library's counters, the private txTrie, what cb received
  calc     \* an application of a synchronous function: inputs, stage, output

vars == <<block, called, st, calc>>

----------------------------------------------------------------------------
(* Protocol parameters (ethereum-common/params.json).                      *)

gasLimitBoundDivisor == 1024
minGasLimit == 5000
difficultyBoundDivisor == 2048
minimumDifficulty == 131072
durationLimit == 13
homeSteadForkNumber == 1150000
maximumExtraDataSize == 32

----------------------------------------------------------------------------
(* Bounds of the model.                                                    *)

MaxUncles == 3
MaxTxs == 2

----------------------------------------------------------------------------
(* Strings.                                                                *)

NoErr == <<>>

Contains(str, chunk) == \E i \in 1..Len(str) : str[i] = chunk

RECURSIVE reduceFrom(_, _, _)
reduceFrom(array, k, str) ==
  IF k > Len(array) THEN str
  ELSE reduceFrom(array, k + 1,
                  (IF str # <<>> THEN str \o <<" ">> ELSE str) \o array[k])

arrayToString_FirstOnly(array) ==
  IF Len(array) = 0 THEN <<>> ELSE array[1]

\* index.js arrayToString: reduce without an initial value throws on an empty
\* array, and the catch returns ''.
arrayToString(array) ==
  IF Len(array) = 0 THEN <<>> ELSE reduceFrom(array, 2, array[1])

----------------------------------------------------------------------------
(* Integers held in buffers.                                               *)

RECURSIVE bufferToInt(_)
bufferToInt(buf) ==
  IF Len(buf) = 0 THEN 0
  ELSE 256 * bufferToInt(SubSeq(buf, 1, Len(buf) - 1)) + buf[Len(buf)]

\* BN's idivn works on the magnitude and keeps the sign: it truncates toward 0.
idivn(a, n) == IF a >= 0 THEN a \div n ELSE -((-a) \div n)

RECURSIVE pow2(_)
pow2(e) == IF e <= 0 THEN 1 ELSE 2 * pow2(e - 1)

----------------------------------------------------------------------------
(* BlockHeader.                                                            *)

isGenesis_ByValue(h) == bufferToInt(h.number) = 0

isGenesis(h) == h.number = <<>>

isHomestead(h) == bufferToInt(h.number) >= homeSteadForkNumber

\* The homestead branch of canonicalDifficulty: the value before the era
\* bonus and the clamp to the minimum.
homesteadDifficulty_NoCutoff(blockTs, parentTs, parentDif) ==
  LET offset == parentDif \div difficultyBoundDivisor
      a      == -idivn(blockTs - parentTs, 10) + 1
  IN  parentDif + offset * a

homesteadDifficulty(blockTs, parentTs, parentDif) ==
  LET offset == parentDif \div difficultyBoundDivisor
      a0     == -idivn(blockTs - parentTs, 10) + 1
      cutoff == -99
      a      == IF cutoff > a0 THEN cutoff ELSE a0
  IN  parentDif + offset * a

frontierDifficulty(blockTs, parentTs, parentDif) ==
  LET offset == parentDif \div difficultyBoundDivisor
  IN  IF parentTs + durationLimit > blockTs
      THEN offset + parentDif
      ELSE parentDif - offset

\* The value canonicalDifficulty holds in dif before the era bonus.
timestampDifficulty(h, parentBlock) ==
  LET parent == parentBlock.header
  IN  IF isHomestead(h)
      THEN homesteadDifficulty(h.timestamp, parent.timestamp, parent.difficulty)
      ELSE frontierDifficulty(h.timestamp, parent.timestamp, parent.difficulty)

canonicalDifficulty(h, parentBlock) ==
  LET dif0 == timestampDifficulty(h, parentBlock)
      exp  == idivn(bufferToInt(h.number), 100000) - 2
      dif1 == IF exp >= 0 THEN dif0 + pow2(exp) ELSE dif0
  IN  IF dif1 < minimumDifficulty THEN minimumDifficulty ELSE dif1

validateDifficulty(h, parentBlock) ==
  canonicalDifficulty(h, parentBlock) = h.difficulty

validateGasLimit_Inclusive(pGasLimit, gasLimit) ==
  LET a == pGasLimit \div gasLimitBoundDivisor
  IN  pGasLimit + a >= gasLimit /\ pGasLimit - a <= gasLimit /\ minGasLimit <= gasLimit

validateGasLimit(pGasLimit, gasLimit) ==
  LET a           == pGasLimit \div gasLimitBoundDivisor
      maxGasLimit == pGasLimit + a
      lowGasLimit == pGasLimit - a
  IN  maxGasLimit > gasLimit /\ lowGasLimit < gasLimit /\ minGasLimit <= gasLimit

\* The height argument of BlockHeader.validate: false when validate is called
\* with two arguments, a BN (always truthy) when it is called for an uncle.
NoHeight == [given |-> FALSE, v |-> 0]
Height(n) == [given |-> TRUE, v |-> n]

\* The checks of BlockHeader.validate that follow the uncle depth rule.
remainingChecks(h, parentBlock) ==
  IF ~validateDifficulty(h, parentBlock) THEN <<"invalid Difficulty">>
  ELSE IF ~validateGasLimit(parentBlock.header.gasLimit, h.gasLimit)
  THEN <<"invalid gas limit">>
  ELSE IF bufferToInt(parentBlock.header.number) + 1 # bufferToInt(h.number)
  THEN <<"invalid heigth">>
  ELSE IF h.timestamp <= parentBlock.header.timestamp THEN <<"invalid timestamp">>
  ELSE IF Len(h.extraData) > maximumExtraDataSize
  THEN <<"invalid amount of extra data">>
  ELSE NoErr

depthOk_Off(dif) == dif < 8 /\ dif >= 1

depthOk(dif) == dif < 8 /\ dif > 1

\* The callback BlockHeader.validate hands to blockchain.getBlock: what it
\* passes to cb.
getBlockCallback(h, height, found) ==
  IF found.err THEN <<"could not find parent block">>
  ELSE LET parentBlock == found.block IN
    IF bufferToInt(h.number) # bufferToInt(parentBlock.header.number) + 1
    THEN <<"invalid number">>
    ELSE IF height.given /\ ~depthOk(height.v - bufferToInt(parentBlock.header.number))
    THEN <<"uncle block has a parent that is too old or to young">>
    ELSE remainingChecks(h, parentBlock)

\* sha3 of the RLP of the header's fields.
hash(h) == <<"sha3", h>>

----------------------------------------------------------------------------
(* Block: the synchronous checks.                                          *)

\* The root of a trie holding contents[i] under the key rlp.encode(i - 1).
TrieRoot(contents) == <<"root", contents>>

\* ethUtil.SHA3_RLP: the root of the empty trie.
SHA3_RLP == TrieRoot(<<>>)

\* sha3(rlp.encode(raw)) of a list of uncle headers' raw forms.
unclesDigest(uncleHeaders) == <<"sha3", uncleHeaders>>

\* tx.serialize(): the RLP of the transaction's raw form.
serialize(tx) == <<"rlp", tx.raw>>

validateTransactionsTrie(b, root) ==
  IF Len(b.transactions) > 0
  THEN b.header.transactionsTrie = root
  ELSE b.header.transactionsTrie = SHA3_RLP

RECURSIVE txErrorsFrom(_, _)
txErrorsFrom(b, i) ==
  IF i > Len(b.transactions) THEN <<>>
  ELSE LET error == b.transactions[i].error
           rest  == txErrorsFrom(b, i + 1)
       IN  IF error # <<>>
           THEN <<error \o <<" at tx " \o ToString(i - 1)>>>> \o rest
           ELSE rest

\* validateTransactions(true): the description of the failing transactions.
validateTransactions(b) == arrayToString(txErrorsFrom(b, 1))

validateUnclesHash(b) == unclesDigest(b.uncleHeaders) = b.header.uncleHash

uncleHashes(b) == {hash(b.uncleHeaders[i]) : i \in 1..Len(b.uncleHeaders)}

\* The synchronous prefix of validateUncles: whether it returns before
\* async.each, and what it passes to cb when it does.
validateUnclesEarly_NoDuplicateCheck(b) ==
  IF isGenesis(b.header) THEN [returns |-> TRUE, err |-> NoErr]
  ELSE IF Len(b.uncleHeaders) > 2
  THEN [returns |-> TRUE, err |-> <<"too many uncle headers">>]
  ELSE [returns |-> FALSE, err |-> NoErr]

validateUnclesEarly(b) ==
  IF isGenesis(b.header) THEN [returns |-> TRUE, err |-> NoErr]
  ELSE IF Len(b.uncleHeaders) > 2
  THEN [returns |-> TRUE, err |-> <<"too many uncle headers">>]
  ELSE IF ~(Cardinality(uncleHashes(b)) = Len(b.uncleHeaders))
  THEN [returns |-> TRUE, err |-> <<"dublicate unlces">>]
  ELSE [returns |-> FALSE, err |-> NoErr]

\* The callback validateUncles hands to blockChain.getDetails: the calls it
\* makes to cb3, each with its argument.
getDetailsCallback_NoElse(details) ==
  IF details.blockInfo /\ details.isUncle
  THEN <<(IF details.err # NoErr THEN details.err ELSE <<"uncle already included">>)>>
  ELSE <<>>

getDetailsCallback(details) ==
  IF details.blockInfo /\ details.isUncle
  THEN <<(IF details.err # NoErr THEN details.err ELSE <<"uncle already included">>)>>
  ELSE <<NoErr>>

----------------------------------------------------------------------------
(* Block.validate: the tasks and callbacks, as the async library runs them.*)
(* Each operator maps the state s of the call to the state after the       *)
(* callback has run to its end, the callbacks it invokes included.         *)

Tasks == {"uncles", "header", "trie"}

putPending(s) == \E c \in s.pending : c[1] = "put"

\* txTrie.root as a reader sees it: a put in flight may or may not have
\* written the trie yet (written says which).
rootSeen(s, written) ==
  IF putPending(s) /\ written
  THEN LET k == (CHOOSE c \in s.pending : c[1] = "put")[2]
       IN  TrieRoot(Append(s.txTrie, serialize(block.transactions[k])))
  ELSE TrieRoot(s.txTrie)

\* The final callback of async.parallel in Block.validate, invoked by the
\* callback of task t with err.
finalCallback_NoUnclesHashCheck(s, t, err, written) ==
  LET e1 == IF err # NoErr THEN <<err>> ELSE <<>>
      e2 == IF ~validateTransactionsTrie(block, rootSeen(s, written))
            THEN Append(e1, <<"invalid transaction true">>) ELSE e1
      txErrors == validateTransactions(block)
      e3 == IF txErrors # <<>> THEN Append(e2, txErrors) ELSE e2
  IN  [s EXCEPT !.cbCount = @ + 1,
                !.msg = arrayToString(e3),
                !.atCb = [tasksDone |-> s.taskDone, putPending |-> putPending(s),
                          task |-> t, err |-> err, root |-> rootSeen(s, written)]]

finalCallback(s, t, err, written) ==
  LET e1 == IF err # NoErr THEN <<err>> ELSE <<>>
      e2 == IF ~validateTransactionsTrie(block, rootSeen(s, written))
            THEN Append(e1, <<"invalid transaction true">>) ELSE e1
      txErrors == validateTransactions(block)
      e3 == IF txErrors # <<>> THEN Append(e2, txErrors) ELSE e2
      e4 == IF ~validateUnclesHash(block)
            THEN Append(e3, <<"invild uncle hash">>) ELSE e3
  IN  [s EXCEPT !.cbCount = @ + 1,
                !.msg = arrayToString(e4),
                !.atCb = [tasksDone |-> s.taskDone, putPending |-> putPending(s),
                          task |-> t, err |-> err, root |-> rootSeen(s, written)]]

\* async.parallel's callback for one of the three tasks: the first error, or
\* the last completion, invokes the final callback, once.
parallelCallback(s, t, err, written) ==
  LET s1 == [s EXCEPT !.taskDone = @ \cup {t}, !.taskErr[t] = err]
  IN  IF err # NoErr
      THEN IF s1.parCalled THEN s1
           ELSE finalCallback([s1 EXCEPT !.parCalled = TRUE], t, err, written)
      ELSE LET s2 == [s1 EXCEPT !.parCompleted = @ + 1]
           IN  IF s2.parCompleted = Cardinality(Tasks) /\ ~s2.parCalled
               THEN finalCallback([s2 EXCEPT !.parCalled = TRUE], t, NoErr, written)
               ELSE s2

\* async.each's callback for one uncle (cb2) in validateUncles.
eachCallback(s, err, written) ==
  IF err # NoErr
  THEN IF s.eachCalled THEN s
       ELSE parallelCallback([s EXCEPT !.eachCalled = TRUE], "uncles", err, written)
  ELSE LET s1 == [s EXCEPT !.eachCompleted = @ + 1]
       IN  IF s1.eachCompleted = Len(block.uncleHeaders) /\ ~s1.eachCalled
           THEN parallelCallback([s1 EXCEPT !.eachCalled = TRUE], "uncles", NoErr, written)
           ELSE s1

\* The inner async.parallel's callback for one of the two checks of uncle i.
uncleCallback(s, i, err, written) ==
  IF err # NoErr
  THEN IF s.innerCalled[i] THEN s
       ELSE eachCallback([s EXCEPT !.innerCalled[i] = TRUE], err, written)
  ELSE LET s1 == [s EXCEPT !.innerCompleted[i] = @ + 1]
       IN  IF s1.innerCompleted[i] = 2 /\ ~s1.innerCalled[i]
           THEN eachCallback([s1 EXCEPT !.innerCalled[i] = TRUE], NoErr, written)
           ELSE s1

\* The header validated as who: 0 is the block's own header, i > 0 uncle i.
headerOf(who) == IF who = 0 THEN block.header ELSE block.uncleHeaders[who]

\* The callback of BlockHeader.validate as who.
headerCallback(s, who, err, written) ==
  LET s1 == [s EXCEPT !.hvDone = @ \cup {who}, !.hvResult[who] = err]
  IN  IF who = 0 THEN parallelCallback(s1, "header", err, written)
      ELSE uncleCallback(s1, who, err, written)

\* BlockHeader.validate as who, up to the call of blockchain.getBlock.
headerValidate(s, who, height) ==
  LET s1 == [s EXCEPT !.hvStarted = @ \cup {who}, !.hvHeight[who] = height]
  IN  IF isGenesis(headerOf(who))
      THEN headerCallback(s1, who, NoErr, FALSE)
      ELSE [s1 EXCEPT !.pending = @ \cup {<<"getBlock", who>>},
                      !.getBlockCalls = @ \cup {who}]

\* async.each's iteratee of validateUncles for uncles i, i+1, ...
RECURSIVE eachUncle(_, _)
eachUncle(s, i) ==
  IF i > Len(block.uncleHeaders) THEN s
  ELSE LET height == Height(bufferToInt(block.header.number))
           s1 == headerValidate(s, i, height)
           s2 == [s1 EXCEPT !.pending = @ \cup {<<"getDetails", i>>}]
       IN  eachUncle(s2, i + 1)

validateUncles(s) ==
  LET early == validateUnclesEarly(block)
  IN  IF early.returns THEN parallelCallback(s, "uncles", early.err, FALSE)
      ELSE IF Len(block.uncleHeaders) = 0
      THEN parallelCallback([s EXCEPT !.eachCalled = TRUE], "uncles", NoErr, FALSE)
      ELSE eachUncle(s, 1)

\* genTxTrie: async.eachSeries puts the first transaction, or calls back at
\* once when there is none.
genTxTrie(s) ==
  IF Len(block.transactions) = 0
  THEN parallelCallback(s, "trie", NoErr, FALSE)
  ELSE [s EXCEPT !.pending = @ \cup {<<"put", 1>>}]

----------------------------------------------------------------------------
(* The collaborators: the blockchain the block is validated against.       *)

chainBlock(n) ==
  [header |-> [number |-> <<n>>, parentHash |-> "zeros", difficulty |-> 1000000,
               gasLimit |-> 1000000, timestamp |-> 100, extraData |-> <<>>,
               uncleHash |-> unclesDigest(<<>>), transactionsTrie |-> SHA3_RLP]]

\* The blocks of the chain, by hash.
blockChain == [hsh \in {"a2", "a3"} |-> IF hsh = "a2" THEN chainBlock(2) ELSE chainBlock(3)]

\* blockchain.getBlock(hash, cb): what cb receives.
getBlock(hsh) ==
  IF hsh \in DOMAIN blockChain
  THEN [err |-> FALSE, block |-> blockChain[hsh]]
  ELSE [err |-> TRUE]

\* blockChain.getDetails(hash, cb): what cb may receive.
DetailsOutcomes ==
  { [err |-> <<"NotFoundError">>, blockInfo |-> FALSE, isUncle |-> FALSE],
    [err |-> NoErr, blockInfo |-> TRUE, isUncle |-> FALSE],
    [err |-> NoErr, blockInfo |-> TRUE, isUncle |-> TRUE] }

\* txTrie.put(key, value, cb): what cb may receive.
PutOutcomes == {NoErr, <<"put failed">>}

----------------------------------------------------------------------------
(* The blocks validate is called on.                                       *)

SeqsUpTo(S, n) == UNION {[1..k -> S] : k \in 0..n}

zeros(n) == [i \in 1..n |-> 0]

\* A header numbered number with parent parentHash (a block of the chain with
\* difficulty 1000000, gas limit 1000000 and timestamp 100, when in the
\* chain) whose fields pass every check but the one profile names.
mkHeader(number, parentHash, profile) ==
  [number |-> number, parentHash |-> parentHash,
   difficulty |-> IF profile = "badDifficulty" THEN 1000000 ELSE 1000488,
   gasLimit |-> IF profile = "badGasLimit" THEN 1000976 ELSE 1000975,
   timestamp |-> IF profile = "badTimestamp" THEN 100 ELSE 101,
   extraData |-> IF profile = "badExtraData" THEN zeros(33) ELSE <<>>,
   uncleHash |-> unclesDigest(<<>>), transactionsTrie |-> SHA3_RLP]

goodTx == [raw |-> "tx-a", error |-> <<>>]
badTx == [raw |-> "tx-b", error |-> <<"Invalid Signature">>]
otherTx == [raw |-> "tx-c", error |-> <<>>]

\* A block of the given header, transactions and uncles whose header commits
\* to them (trieOk, unclesOk) or to something else.
mkBlock(h, txs, uncles, trieOk, unclesOk) ==
  [header |->
     [h EXCEPT
        !.transactionsTrie =
           IF trieOk THEN TrieRoot([i \in 1..Len(txs) |-> serialize(txs[i])])
           ELSE TrieRoot([i \in 1..Len(txs) + 1 |->
                            IF i <= Len(txs) THEN serialize(txs[i])
                            ELSE serialize(otherTx)]),
        !.uncleHash =
           IF unclesOk THEN unclesDigest(uncles)
           ELSE unclesDigest(Append(uncles, mkHeader(<<1>>, "zeros", "ok")))],
   transactions |-> txs,
   uncleHeaders |-> uncles]

\* Blocks for the orchestration of validate: few headers, up to MaxUncles
\* uncles and MaxTxs transactions.
Headers ==
  { mkHeader(<<>>, "zeros", "badDifficulty"), mkHeader(<<4>>, "a3", "ok"),
    mkHeader(<<4>>, "a3", "badDifficulty"), mkHeader(<<4>>, "zeros", "ok") }

Uncles == { mkHeader(<<3>>, "a2", "ok"), mkHeader(<<3>>, "a2", "badDifficulty") }

Blocks ==
  { mkBlock(h, txs, uncles, trieOk, unclesOk) :
      h \in Headers, txs \in SeqsUpTo({goodTx, badTx}, MaxTxs),
      uncles \in SeqsUpTo(Uncles, MaxUncles),
      trieOk \in BOOLEAN, unclesOk \in BOOLEAN }

\* Blocks for the termination of validate: every number of uncles and of
\* transactions, headers and uncles that pass or fail.
FairBlocks ==
  { mkBlock(h, txs, uncles, TRUE, TRUE) :
      h \in Headers \ {mkHeader(<<4>>, "zeros", "ok")},
      txs \in SeqsUpTo({goodTx}, MaxTxs),
      uncles \in SeqsUpTo(Uncles, MaxUncles) }

\* Blocks for the header checks: every number, parent and failing check, as
\* the block's header and as its uncle.
Profiles == {"ok", "badDifficulty", "badGasLimit", "badTimestamp", "badExtraData"}

HeaderBlocks ==
  { mkBlock(mkHeader(number, parentHash, profile), txs, uncles, TRUE, TRUE) :
      number \in {<<>>, <<0>>, <<3>>, <<4>>, <<9>>, <<10>>},
      parentHash \in {"a3", "zeros"}, profile \in Profiles,
      txs \in {<<>>, <<goodTx>>},
      uncles \in {<<>>} \cup
        { <<mkHeader(un, up, uprofile)>> :
            un \in {<<>>, <<0>>, <<3>>}, up \in {"a2", "zeros"}, uprofile \in Profiles } }

----------------------------------------------------------------------------
(* The state machine of one call of Block.validate.                        *)

idle(b) ==
  [pending |-> {}, getBlockCalls |-> {},
   hvStarted |-> {}, hvDone |-> {},
   hvHeight |-> [who \in 0..Len(b.uncleHeaders) |-> NoHeight],
   hvResult |-> [who \in 0..Len(b.uncleHeaders) |-> NoErr],
   innerCompleted |-> [i \in 1..Len(b.uncleHeaders) |-> 0],
   innerCalled |-> [i \in 1..Len(b.uncleHeaders) |-> FALSE],
   eachCompleted |-> 0, eachCalled |-> FALSE,
   parCompleted |-> 0, parCalled |-> FALSE,
   taskDone |-> {}, taskErr |-> [t \in Tasks |-> NoErr],
   txTrie |-> <<>>, cbCount |-> 0, msg |-> <<>>,
   atCb |-> [tasksDone |-> {}, putPending |-> FALSE, task |-> "none",
             err |-> NoErr, root |-> SHA3_RLP]]

NoCalc == [op |-> "none"]

Init ==
  /\ block \in Blocks
  /\ called = FALSE
  /\ st = idle(block)
  /\ calc = NoCalc

InitHeaders ==
  /\ block \in HeaderBlocks
  /\ called = FALSE
  /\ st = idle(block)
  /\ calc = NoCalc

InitFair ==
  /\ block \in FairBlocks
  /\ called = FALSE
  /\ st = idle(block)
  /\ calc = NoCalc

\* validate(blockChain, cb): async.parallel starts the three tasks in order.
Validate ==
  /\ ~called
  /\ called' = TRUE
  /\ st' = genTxTrie(headerValidate(validateUncles(st), 0, NoHeight))
  /\ UNCHANGED <<block, calc>>

\* blockchain.getBlock calls back the validation of the header who.
GetBlockReturn ==
  \E who \in 0..Len(block.uncleHeaders), written \in BOOLEAN :
    /\ <<"getBlock", who>> \in st.pending
    /\ st' = headerCallback(
               [st EXCEPT !.pending = @ \ {<<"getBlock", who>>}], who,
               getBlockCallback(headerOf(who), st.hvHeight[who],
                                getBlock(headerOf(who).parentHash)),
               written)
    /\ UNCHANGED <<block, called, calc>>

\* blockChain.getDetails calls back for uncle i.
GetDetailsReturn ==
  \E i \in 1..Len(block.uncleHeaders), details \in DetailsOutcomes, written \in BOOLEAN :
    /\ <<"getDetails", i>> \in st.pending
    /\ LET s1 == [st EXCEPT !.pending = @ \ {<<"getDetails", i>>}]
           calls == getDetailsCallback(details)
       IN  st' = IF Len(calls) = 0 THEN s1
                 ELSE uncleCallback(s1, i, calls[1], written)
    /\ UNCHANGED <<block, called, calc>>

\* txTrie.put calls back for transaction k: async.eachSeries goes on to the
\* next transaction, or calls genTxTrie's cb.
PutReturn ==
  \E k \in 1..Len(block.transactions), err \in PutOutcomes :
    /\ <<"put", k>> \in st.pending
    /\ LET s1 == [st EXCEPT !.pending = @ \ {<<"put", k>>}]
           s2 == [s1 EXCEPT !.txTrie = Append(@, serialize(block.transactions[k]))]
       IN  st' = IF err # NoErr THEN parallelCallback(s1, "trie", err, FALSE)
                 ELSE IF k < Len(block.transactions)
                 THEN [s2 EXCEPT !.pending = @ \cup {<<"put", k + 1>>}]
                 ELSE parallelCallback(s2, "trie", NoErr, FALSE)
    /\ UNCHANGED <<block, called, calc>>

Next == Validate \/ GetBlockReturn \/ GetDetailsReturn \/ PutReturn

Spec == Init /\ [][Next]_vars

SpecHeaders == InitHeaders /\ [][Next]_vars

\* Every collaborator call in flight eventually calls back.
FairSpec ==
  /\ InitFair /\ [][Next]_vars
  /\ WF_vars(Validate) /\ WF_vars(GetBlockReturn)
  /\ WF_vars(GetDetailsReturn) /\ WF_vars(PutReturn)

----------------------------------------------------------------------------
(* Properties of Block.validate.                                           *)

uncleCount == Len(block.uncleHeaders)

duplicateUncles ==
  \E i, j \in 1..uncleCount : i # j /\ hash(block.uncleHeaders[i]) = hash(block.uncleHeaders[j])

\* What BlockHeader.validate reports for the block's own header, alone.
ownHeaderResult ==
  IF isGenesis(block.header) THEN NoErr
  ELSE getBlockCallback(block.header, NoHeight, getBlock(block.header.parentHash))

failingTxs == {i \in 1..Len(block.transactions) : block.transactions[i].error # <<>>}

failedTasks == {t \in Tasks : st.taskErr[t] # NoErr}

\* C1: the dependent checks and the call of cb happen only after all three
\* tasks (validateUncles, header.validate, genTxTrie) have completed, and the
\* trie's root is never read while a put is outstanding.
C1_ChecksAfterJoin ==
  st.cbCount > 0 => (st.atCb.tasksDone = Tasks /\ ~st.atCb.putPending)

\* cb has been called for a non-genesis block whose header has an invalid
\* difficulty, with a failing transaction and a wrong uncle hash.
threeFaults ==
  /\ st.cbCount > 0
  /\ ~isGenesis(block.header)
  /\ ownHeaderResult = <<"invalid Difficulty">>
  /\ failingTxs # {}
  /\ ~validateUnclesHash(block)

C5_AnyBlockUncleRules ==
  (called /\ (uncleCount >= 3 \/ duplicateUncles)) => st.taskErr["uncles"] # NoErr

\* C5 (amended): for a block whose number is not the empty byte sequence,
\* validateUncles reports 'too many uncle headers' for 3 or more uncles and
\* 'dublicate unlces' for 2 uncles of the same hash, whatever the uncles'
\* own validity, and validate passes that reason to cb; for a block whose
\* number is empty validateUncles reports no failure, whatever its uncles.
C5_NonGenesisUncleRules ==
  called =>
    /\ (~isGenesis(block.header) /\ uncleCount >= 3)
         => ( /\ st.taskErr["uncles"] = <<"too many uncle headers">>
              /\ st.cbCount = 1 /\ Contains(st.msg, "too many uncle headers") )
    /\ (~isGenesis(block.header) /\ uncleCount < 3 /\ duplicateUncles)
         => ( /\ st.taskErr["uncles"] = <<"dublicate unlces">>
              /\ st.cbCount = 1 /\ Contains(st.msg, "dublicate unlces") )
    /\ isGenesis(block.header)
         => ("uncles" \in st.taskDone /\ st.taskErr["uncles"] = NoErr)

\* Two uncles of the same hash, each valid on its own, in a non-genesis
\* block: validateUncles has reported the duplicate.
C5_Witness ==
  /\ called /\ ~isGenesis(block.header) /\ uncleCount = 2 /\ duplicateUncles
  /\ \A i \in 1..uncleCount :
       getBlockCallback(block.uncleHeaders[i], Height(bufferToInt(block.header.number)),
                        getBlock(block.uncleHeaders[i].parentHash)) = NoErr
  /\ st.taskErr["uncles"] = <<"dublicate unlces">>

\* C10: every call of validate eventually invokes cb, and never more than
\* once.
C10_CbExactlyOnce ==
  /\ [](st.cbCount <= 1)
  /\ (called ~> st.cbCount = 1)

\* cb has been invoked in a call with 2 uncles where two of the tasks failed.
C10_Witness ==
  /\ st.cbCount = 1 /\ st.pending = {} /\ uncleCount = 2
  /\ Cardinality(failedTasks) >= 2

----------------------------------------------------------------------------
(* Properties of BlockHeader.validate.                                     *)

uncleDepthError == <<"uncle block has a parent that is too old or to young">>

\* C4: a header whose number is the empty byte sequence is validated with no
\* error and without a call of getBlock, with or without a height, whatever
\* its other fields; a header whose number is not empty (a zero byte
\* included) goes through getBlock and the checks.
C4_GenesisExemption ==
  \A who \in st.hvStarted :
    LET h == headerOf(who) IN
    /\ h.number = <<>>
         => (who \notin st.getBlockCalls /\ who \in st.hvDone /\ st.hvResult[who] = NoErr)
    /\ h.number # <<>>
         => ( /\ who \in st.getBlockCalls
              /\ (who \in st.hvDone /\ h.parentHash \notin DOMAIN blockChain)
                   => st.hvResult[who] = <<"could not find parent block">> )

\* An uncle with the empty number validated (with a height) without getBlock
\* in a block whose own number is one zero byte, which went to getBlock.
C4_Witness ==
  /\ called /\ block.header.number = <<0>> /\ 0 \in st.getBlockCalls
  /\ uncleCount = 1 /\ block.uncleHeaders[1].number = <<>>
  /\ block.uncleHeaders[1].parentHash \notin DOMAIN blockChain
  /\ Len(block.uncleHeaders[1].extraData) > maximumExtraDataSize
  /\ 1 \in st.hvDone /\ st.hvHeight[1].given /\ 1 \notin st.getBlockCalls

\* C6: validateUncles passes the block's own number as the height h of every
\* uncle; for an uncle numbered p + 1 whose parent has number p, validate
\* reports the depth error exactly when h - p <= 1 or h - p >= 8, and for
\* h - p in 2..7 it reports what the remaining checks decide.
C6_UncleDepth ==
  \A i \in 1..uncleCount :
    LET u == block.uncleHeaders[i]
        h == bufferToInt(block.header.number)
        found == getBlock(u.parentHash)
    IN  i \in st.hvStarted =>
        /\ st.hvHeight[i] = Height(h)
        /\ (i \in st.hvDone /\ i \in st.getBlockCalls /\ ~found.err
              /\ bufferToInt(u.number) = bufferToInt(found.block.header.number) + 1)
            => LET dif == h - bufferToInt(found.block.header.number) IN
               /\ st.hvResult[i] = uncleDepthError <=> (dif <= 1 \/ dif >= 8)
               /\ dif \in 2..7 => st.hvResult[i] = remainingChecks(u, found.block)

\* An uncle whose parent is 7 generations behind the block has been accepted.
C6_Witness ==
  /\ uncleCount = 1 /\ 1 \in st.hvDone /\ 1 \in st.getBlockCalls
  /\ block.uncleHeaders[1].parentHash = "a2"
  /\ bufferToInt(block.header.number) - 2 = 7
  /\ st.hvResult[1] = NoErr

----------------------------------------------------------------------------
(* Serialisation: RLP, Block.serialize, Block.from, BlockHeader.from.      *)
(* A JavaScript value is a tagged record: a Buffer B(bytes), an Array      *)
(* A(items), an object O(fields by name), or undefined.                    *)

B(bytes) == [t |-> "buffer", v |-> bytes]
A(items) == [t |-> "array", v |-> items]
O(fieldsByName) == [t |-> "object", v |-> fieldsByName]
undefined == [t |-> "undefined", v |-> <<>>]

RECURSIVE toBytes(_)
toBytes(n) == IF n = 0 THEN <<>> ELSE Append(toBytes(n \div 256), n % 256)

\* rlp's encodeLength.
encodeLength(len, offset) ==
  IF len < 56 THEN <<len + offset>>
  ELSE <<offset + 55 + Len(toBytes(len))>> \o toBytes(len)

RECURSIVE rlpEncode(_)
RECURSIVE rlpEncodeAll(_, _)
rlpEncodeAll(items, i) ==
  IF i > Len(items) THEN <<>> ELSE rlpEncode(items[i]) \o rlpEncodeAll(items, i + 1)

rlpEncode(item) ==
  IF item.t = "array"
  THEN LET payload == rlpEncodeAll(item.v, 1)
       IN  encodeLength(Len(payload), 192) \o payload
  ELSE IF Len(item.v) = 1 /\ item.v[1] < 128 THEN item.v
  ELSE encodeLength(Len(item.v), 128) \o item.v

\* rlp's _decode of the item that starts at bytes[1]: the item and the bytes
\* that follow it.
RECURSIVE rlpDecodeOne(_)
RECURSIVE rlpDecodeAll(_)
rlpDecodeAll(bytes) ==
  IF Len(bytes) = 0 THEN <<>>
  ELSE LET d == rlpDecodeOne(bytes) IN <<d.data>> \o rlpDecodeAll(d.remainder)

rlpDecodeOne(bytes) ==
  LET first == bytes[1]
      tail(k) == SubSeq(bytes, k + 1, Len(bytes))
  IN  IF first <= 127 THEN [data |-> B(<<first>>), remainder |-> tail(1)]
      ELSE IF first <= 183
      THEN LET length == first - 128
           IN  [data |-> B(SubSeq(bytes, 2, 1 + length)), remainder |-> tail(1 + length)]
      ELSE IF first <= 191
      THEN LET llength == first - 183
               length == bufferToInt(SubSeq(bytes, 2, 1 + llength))
           IN  [data |-> B(SubSeq(bytes, 2 + llength, 1 + llength + length)),
                remainder |-> tail(1 + llength + length)]
      ELSE IF first <= 247
      THEN LET length == first - 192
           IN  [data |-> A(rlpDecodeAll(SubSeq(bytes, 2, 1 + length))),
                remainder |-> tail(1 + length)]
      ELSE LET llength == first - 247
               length == bufferToInt(SubSeq(bytes, 2, 1 + llength))
           IN  [data |-> A(rlpDecodeAll(SubSeq(bytes, 2 + llength, 1 + llength + length))),
                remainder |-> tail(1 + llength + length)]

rlpDecode(bytes) == rlpDecodeOne(bytes).data

\* The field table the BlockHeader constructor assigns to this.fields of the
\* instance.
fields ==
  << [name |-> "parentHash", length |-> 32, empty |-> FALSE, allowZero |-> FALSE],
     [name |-> "uncleHash", length |-> 0, empty |-> FALSE, allowZero |-> FALSE],
     [name |-> "coinbase", length |-> 20, empty |-> FALSE, allowZero |-> FALSE],
     [name |-> "stateRoot", length |-> 32, empty |-> FALSE, allowZero |-> FALSE],
     [name |-> "transactionsTrie", length |-> 32, empty |-> FALSE, allowZero |-> FALSE],
     [name |-> "receiptTrie", length |-> 32, empty |-> FALSE, allowZero |-> FALSE],
     [name |-> "bloom", length |-> 0, empty |-> FALSE, allowZero |-> FALSE],
     [name |-> "difficulty", length |-> 0, empty |-> FALSE, allowZero |-> FALSE],
     [name |-> "number", length |-> 0, empty |-> FALSE, allowZero |-> FALSE],
     [name |-> "gasLimit", length |-> 0, empty |-> FALSE, allowZero |-> FALSE],
     [name |-> "gasUsed", length |-> 0, empty |-> TRUE, allowZero |-> FALSE],
     [name |-> "timestamp", length |-> 0, empty |-> FALSE, allowZero |-> FALSE],
     [name |-> "extraData", length |-> 0, empty |-> TRUE, allowZero |-> TRUE],
     [name |-> "mixHash", length |-> 0, empty |-> FALSE, allowZero |-> FALSE],
     [name |-> "nonce", length |-> 0, empty |-> FALSE, allowZero |-> FALSE] >>

fieldNames == {fields[i].name : i \in 1..Len(fields)}

\* BlockHeader.fields, the property of the class that `this.fields` reads in
\* the static method from: the class defines none.
staticFields == undefined

\* A 32-byte digest.
digest32(byte) == [i \in 1..32 |-> byte]

\* The header new BlockHeader() constructs: every field at its default.
newBlockHeader ==
  [name \in fieldNames |->
     CASE name \in {"parentHash", "stateRoot", "mixHash"} -> B(zeros(32))
       [] name = "coinbase" -> B(zeros(20))
       [] name = "uncleHash" -> B(digest32(29))
       [] name \in {"transactionsTrie", "receiptTrie"} -> B(digest32(86))
       [] name = "bloom" -> B(zeros(256))
       [] name = "number" -> B(toBytes(homeSteadForkNumber))
       [] name = "gasLimit" -> B([i \in 1..7 |-> 255])
       [] OTHER -> B(<<>>)]

\* get raw of a BlockHeader.
headerRaw(header) == A([i \in 1..Len(fields) |-> header[fields[i].name]])

\* data[name] in JavaScript.
property(data, name) ==
  IF data.t = "object" /\ name \in DOMAIN data.v THEN data.v[name] ELSE undefined

RECURSIVE decimal(_)
decimal(bytes) ==
  IF Len(bytes) = 0 THEN 0
  ELSE 10 * decimal(SubSeq(bytes, 1, Len(bytes) - 1)) + (bytes[Len(bytes)] - 48)

\* value > n in JavaScript: a Buffer is compared through the number its text
\* denotes (a decimal numeral here, NaN otherwise), undefined as NaN.
greaterThan(value, n) ==
  /\ value.t = "buffer"
  /\ \A i \in 1..Len(value.v) : value.v[i] \in 48..57
  /\ decimal(value.v) > n

noError == "none"

\* The body of the forEach of BlockHeader.from for the fields i, i+1, ... of
\* the table table: the header, or the error thrown.
RECURSIVE forEachField(_, _, _, _)
forEachField(table, data, header, i) ==
  IF i > Len(table) THEN [error |-> noError, header |-> header]
  ELSE LET field == table[i]
           value == property(data, field.name)
       IN  IF field.length > 0 /\ greaterThan(value, field.length)
           THEN [error |-> "Error: " \o field.name \o " can only be that long!",
                 header |-> header]
           ELSE IF ~field.empty /\ value.t = "undefined"
           THEN [error |-> "TypeError", header |-> header]
           ELSE IF ~field.empty /\ Len(value.v) = 0
           THEN [error |-> "Error: " \o field.name \o " should not be empty!",
                 header |-> header]
           ELSE IF ~field.allowZero /\ value.t = "undefined"
           THEN [error |-> "Error: " \o field.name \o " should not be zero or undefined!",
                 header |-> header]
           ELSE forEachField(table, data, [header EXCEPT ![field.name] = value], i + 1)

\* static BlockHeader.from(data): this.fields is undefined, and calling
\* forEach of it throws a TypeError.
BlockHeaderFrom(data) ==
  IF staticFields = undefined
  THEN [error |-> "TypeError", header |-> newBlockHeader]
  ELSE forEachField(staticFields, data, newBlockHeader, 1)

newBlock == [header |-> newBlockHeader, transactions |-> <<>>, uncleHeaders |-> <<>>]

\* Block.serialize(rlpEncode).
blockSerialize(b, encode) ==
  LET raw == A(<< headerRaw(b.header),
                  A([i \in 1..Len(b.transactions) |-> b.transactions[i].raw]),
                  A([i \in 1..Len(b.uncleHeaders) |-> headerRaw(b.uncleHeaders[i])]) >>)
  IN  IF encode THEN B(rlpEncode(raw)) ELSE raw

\* Block.from(data): the block, or the error thrown.
BlockFrom(data0) ==
  LET data == IF data0.t = "buffer" THEN rlpDecode(data0.v) ELSE data0
      isArray == data.t = "array"
      headerFrom == BlockHeaderFrom(IF isArray THEN data.v[1] ELSE property(data, "header"))
      rawTransactions ==
        IF isArray THEN data.v[2].v
        ELSE IF property(data, "transactions") = undefined THEN <<>>
        ELSE property(data, "transactions").v
      rawUncleHeaders ==
        IF isArray THEN data.v[3].v
        ELSE IF property(data, "uncleHeaders") = undefined THEN <<>>
        ELSE property(data, "uncleHeaders").v
      unclesFrom == [i \in 1..Len(rawUncleHeaders) |-> BlockHeaderFrom(rawUncleHeaders[i])]
  IN  IF headerFrom.error # noError THEN [error |-> headerFrom.error, block |-> newBlock]
      ELSE IF \E i \in 1..Len(unclesFrom) : unclesFrom[i].error # noError
      THEN [error |-> unclesFrom[CHOOSE i \in 1..Len(unclesFrom) :
                                   /\ unclesFrom[i].error # noError
                                   /\ \A j \in 1..(i - 1) : unclesFrom[j].error = noError].error,
            block |-> newBlock]
      ELSE [error |-> noError,
            block |-> [header |-> headerFrom.header,
                       transactions |-> [i \in 1..Len(rawTransactions) |->
                                           [raw |-> rawTransactions[i]]],
                       uncleHeaders |-> [i \in 1..Len(unclesFrom) |-> unclesFrom[i].header]]]

----------------------------------------------------------------------------
(* Applications of the synchronous functions to inputs from bounded sets.  *)

GasDelta == 2
MaxTsGap == 1020

ParentGasLimits ==
  {0, 1023, 1024, 2048, 4096, 4999, 5000, 5119, 5120, 5125, 6144, 1000000}

GasInputs ==
  { [op |-> "validateGasLimit", stage |-> "in", pGasLimit |-> P, gasLimit |-> g,
     out |-> FALSE] :
      P \in ParentGasLimits,
      g \in { x + d : x \in {0, 4096, 5000, 5120, 6144, 1000000}
                        \cup {4 * gasLimitBoundDivisor + k : k \in {-4, 4}}
                        \cup {5 * gasLimitBoundDivisor + k : k \in {-5, 5}}
                        \cup {6 * gasLimitBoundDivisor + k : k \in {-6, 6}}
                        \cup {1000000 + k : k \in {-976, 976}},
                      d \in -GasDelta..GasDelta } \cap Nat }

DifficultyInputs ==
  { [op |-> "canonicalDifficulty", stage |-> "in", number |-> number,
     timestamp |-> blockTs, parentTimestamp |-> MaxTsGap, parentDifficulty |-> D,
     dif |-> 0, out |-> 0] :
      number \in {<<3>>, toBytes(homeSteadForkNumber), toBytes(2000000)},
      blockTs \in 0..(2 * MaxTsGap),
      D \in {2047, minimumDifficulty, 135000, 1000000} }

codecTx == [raw |-> A(<<B(<<>>), B(<<1>>), B(<<82, 8>>), B(zeros(20)), B(<<200>>)>>)]

CodecBlocks ==
  { [header |-> [newBlockHeader EXCEPT !["number"] = B(number), !["extraData"] = B(extra)],
     transactions |-> txs, uncleHeaders |-> uncles] :
      number \in {<<>>, <<4>>, toBytes(homeSteadForkNumber)},
      extra \in {<<>>, <<0>>},
      txs \in {<<>>, <<codecTx>>, <<codecTx, codecTx>>},
      uncles \in {<<>>, <<[newBlockHeader EXCEPT !["number"] = B(<<3>>)]>>} }

CodecInputs ==
  { [op |-> "from", stage |-> "in", b |-> b, encode |-> encode, data |-> undefined,
     result |-> [error |-> noError, block |-> newBlock]] :
      b \in CodecBlocks, encode \in BOOLEAN }

InitPure ==
  /\ block = mkBlock(mkHeader(<<>>, "zeros", "ok"), <<>>, <<>>, TRUE, TRUE)
  /\ called = FALSE
  /\ st = idle(block)
  /\ calc \in GasInputs \cup DifficultyInputs \cup CodecInputs

ApplyValidateGasLimit ==
  /\ calc.op = "validateGasLimit" /\ calc.stage = "in"
  /\ calc' = [calc EXCEPT !.stage = "out",
                          !.out = validateGasLimit(calc.pGasLimit, calc.gasLimit)]
  /\ UNCHANGED <<block, called, st>>

ApplyCanonicalDifficulty ==
  /\ calc.op = "canonicalDifficulty" /\ calc.stage = "in"
  /\ LET h == [number |-> calc.number, timestamp |-> calc.timestamp]
         parentBlock == [header |-> [timestamp |-> calc.parentTimestamp,
                                     difficulty |-> calc.parentDifficulty]]
     IN  calc' = [calc EXCEPT !.stage = "out",
                              !.dif = timestampDifficulty(h, parentBlock),
                              !.out = canonicalDifficulty(h, parentBlock)]
  /\ UNCHANGED <<block, called, st>>

Serialize ==
  /\ calc.op = "from" /\ calc.stage = "in"
  /\ calc' = [calc EXCEPT !.stage = "serialized",
                          !.data = blockSerialize(calc.b, calc.encode)]
  /\ UNCHANGED <<block, called, st>>

From ==
  /\ calc.op = "from" /\ calc.stage = "serialized"
  /\ calc' = [calc EXCEPT !.stage = "out", !.result = BlockFrom(calc.data)]
  /\ UNCHANGED <<block, called, st>>

NextPure == ApplyValidateGasLimit \/ ApplyCanonicalDifficulty \/ Serialize \/ From

SpecPure == InitPure /\ [][NextPure]_vars

----------------------------------------------------------------------------
(* Properties of the synchronous functions.                                *)

gasBound == calc.pGasLimit \div gasLimitBoundDivisor

\* C7: validateGasLimit accepts g for the parent gas limit P exactly when
\* P - bound < g < P + bound and g >= minGasLimit, with
\* bound = floor(P / gasLimitBoundDivisor); g at either bound is rejected.
C7_GasLimitBounds ==
  (calc.op = "validateGasLimit" /\ calc.stage = "out")
  => ( /\ calc.out <=> ( /\ calc.pGasLimit - gasBound < calc.gasLimit
                         /\ calc.gasLimit < calc.pGasLimit + gasBound
                         /\ calc.gasLimit >= minGasLimit )
       /\ calc.gasLimit \in {calc.pGasLimit - gasBound, calc.pGasLimit + gasBound}
            => ~calc.out )

\* A gas limit one below the upper bound has been accepted, and one at the
\* bound is among the inputs.
C7_Witness ==
  /\ calc.op = "validateGasLimit" /\ calc.stage = "out" /\ calc.out
  /\ gasBound > 1 /\ calc.gasLimit = calc.pGasLimit + gasBound - 1

difOffset == calc.parentDifficulty \div difficultyBoundDivisor

homesteadOut ==
  /\ calc.op = "canonicalDifficulty" /\ calc.stage = "out"
  /\ bufferToInt(calc.number) >= homeSteadForkNumber

\* C8 (as claimed): for a homestead header and any timestamps, the difficulty
\* before the era bonus differs from the parent's D by at most
\* floor(D / difficultyBoundDivisor) * 99 in either direction, and the value
\* returned is never below minimumDifficulty.
C8_DifficultyWithin99 ==
  homesteadOut
  => ( /\ calc.dif >= calc.parentDifficulty - difOffset * 99
       /\ calc.dif <= calc.parentDifficulty + difOffset * 99
       /\ calc.out >= minimumDifficulty )

\* C8 (amended): the difficulty before the era bonus is never more than
\* floor(D / difficultyBoundDivisor) * 99 below D; it is at most that much
\* above D when the block's timestamp is less than 990 below the parent's
\* (at most floor(D / difficultyBoundDivisor) above D when it is not below
\* the parent's), and exceeds D by more when it is 990 or more below and the
\* offset is not 0; the value returned is never below minimumDifficulty.
C8_DifficultyBounds ==
  homesteadOut
  => ( /\ calc.dif >= calc.parentDifficulty - difOffset * 99
       /\ calc.parentTimestamp - calc.timestamp < 990
            => calc.dif <= calc.parentDifficulty + difOffset * 99
       /\ calc.timestamp >= calc.parentTimestamp
            => calc.dif <= calc.parentDifficulty + difOffset
       /\ (calc.parentTimestamp - calc.timestamp >= 990 /\ difOffset > 0)
            => calc.dif > calc.parentDifficulty + difOffset * 99
       /\ calc.out >= minimumDifficulty )

\* A homestead header more than 1000 seconds after its parent: the decrease
\* is clamped at 99 offsets.
C8_Witness ==
  /\ homesteadOut /\ calc.timestamp - calc.parentTimestamp > 1000
  /\ difOffset > 0 /\ calc.dif = calc.parentDifficulty - difOffset * 99

\* C9: Block.from(b.serialize(true)) and Block.from(b.serialize(false))
\* complete without error and yield b's header fields, transactions' raw
\* forms and uncle headers' raw forms, in order.
C9_RoundTrip ==
  (calc.op = "from" /\ calc.stage = "out")
  => ( /\ calc.result.error = noError
       /\ \A name \in fieldNames : calc.result.block.header[name] = calc.b.header[name]
       /\ Len(calc.result.block.transactions) = Len(calc.b.transactions)
       /\ \A i \in 1..Len(calc.b.transactions) :
            calc.result.block.transactions[i].raw = calc.b.transactions[i].raw
       /\ Len(calc.result.block.uncleHeaders) = Len(calc.b.uncleHeaders)
       /\ \A i \in 1..Len(calc.b.uncleHeaders) :
            headerRaw(calc.result.block.uncleHeaders[i]) = headerRaw(calc.b.uncleHeaders[i]) )

====
